---- MODULE Spec2Model ----
(***************************************************************************)
(* Model of skytemple_ssb_debugger: the Debugger Controller                *)
(* (controller/debugger.py), its breaking-point hook running on the        *)
(* emulator thread, and the UI thread that configures the controller and   *)
(* answers breakpoints.                                                    *)
(*                                                                         *)
(* Threads.  The emulator thread executes registered exec hooks            *)
(* synchronously (pc records its position inside hook__breaking_point).    *)
(* The UI thread calls enable/disable, the setters, and answers a          *)
(* Breakpoint State.  enable() and disable() marshal every hook            *)
(* (de)registration onto the emulator thread and wait for it, so they run  *)
(* while the emulator thread is between hook invocations (pc = "idle").    *)
(***************************************************************************)
EXTENDS Integers, Sequences, FiniteSets, TLC

None == "None"

\* ---------------------------------------------------------------- bounds
\* Emulator tick ids range over 0..MaxTick.
MaxTick == 1
\* Tasks queued onto the emulator thread and not yet run.
MaxPending == 2
\* Ground Engine State objects constructed in one behaviour.
MaxGes == 2
\* Callbacks in flight to the UI thread (threadsafe_gtk_nonblocking).
MaxGtkQueue == 2

\* ------------------------------------------------------- program values
\* The five exec-hook addresses of enable()/disable().
BreakingPointAddr == "FuncThatCallsCommandParsing+0x58"
DebugPrintAddr == "DebugPrint"
DebugPrint2Addr == "DebugPrint2"
LogDebugPrintAddr == "ScriptCommandParsing+0x3C40"
DebugModeAddr == "ScriptCommandParsing+0x15C8"

HookAddrs ==
    {BreakingPointAddr, DebugPrintAddr, DebugPrint2Addr, LogDebugPrintAddr, DebugModeAddr}

\* BreakpointStateType.
STOPPED == "STOPPED"
RESUME == "RESUME"
STEP_NEXT == "STEP_NEXT"
STEP_INTO == "STEP_INTO"
STEP_OVER == "STEP_OVER"
STEP_OUT == "STEP_OUT"
FAIL_HARD == "FAIL_HARD"

Outcomes == {RESUME, STEP_NEXT, STEP_INTO, STEP_OVER, STEP_OUT, FAIL_HARD}

\* Inputs of enable().
Roms == {"rom"}
Managers == {None, "manager"}

\* The fields of a Script Runtime Struct the breaking-point hook reads.
Hangers == {0, 1}
TargetTypes == {"ACTOR", "OBJECT"}
TargetSlots == {0, 1}
CallStackAddrs == {4, 8}

ScriptRuntimeStructs ==
    { [hanger_ssb |-> h, script_target_type |-> t, script_target_slot_id |-> l,
       is_in_unionall |-> u, has_call_stack |-> c,
       call_stack__current_opcode_addr_relative |-> a] :
         h \in Hangers, t \in TargetTypes, l \in TargetSlots, u \in BOOLEAN,
         c \in BOOLEAN, a \in CallStackAddrs \cup {0} }

\* A struct without a call stack carries no call-stack address.
Srs == { s \in ScriptRuntimeStructs :
           s.has_call_stack <=> s.call_stack__current_opcode_addr_relative # 0 }

\* No struct: the emulator thread is outside the hook.
NoSrs ==
    [hanger_ssb |-> -1, script_target_type |-> None, script_target_slot_id |-> -1,
     is_in_unionall |-> FALSE, has_call_stack |-> FALSE,
     call_stack__current_opcode_addr_relative |-> 0]

\* What the hit finds: ssb, whether loaded_ssb_files[srs.hanger_ssb] holds a
\* script file; has, the answer of breakpoint_manager.has(...) for the hit.
Hits == [ssb : BOOLEAN, has : BOOLEAN]
NoHit == [ssb |-> FALSE, has |-> FALSE]

\* No Breakpoint State object exists.
NoState == [hanger_id |-> -1, state |-> None, signalled |-> FALSE]

\* Address Container: the containers, the threads calling them, the value
\* they are constructed with and the values passed to set.
Containers == {"c1", "c2"}
Threads == {1, 2}
InitialAddress == 4096
Addresses == {8192, 12288}
\* A thread outside any call of a container.
NoCall == [op |-> "idle", at |-> "idle", container |-> "c1", value |-> 0, result |-> 0]

\* Dungeon State Controller: the grid of the model's dungeon floor, its tiles
\* by index in row-major order, and where a refresh tick can raise.
MAP_WIDTH == 2
MAP_HEIGHT == 2
TileCount == MAP_WIDTH * MAP_HEIGHT
TileX(i) == i % MAP_WIDTH
TileY(i) == i \div MAP_WIDTH
FailPoints ==
    [at : {"none", "load_map", "provider"}, tile : {0}]
      \cup [at : {"tile", "full_pixbuf"}, tile : 0..(TileCount - 1)]
\* What a refresh tick did; NoTick before the first one.
NoTick == [read_valid |-> FALSE, load_map |-> FALSE, provider |-> FALSE,
           rearmed |-> 0, escaped |-> FALSE, caught |-> FALSE]

\* _get_next_opcode_addr: the params of the opcode table's entries, relative
\* addresses of opcodes and values of the 16-bit field after the opcode id.
OpcodeParams == -1..3
RelativeAddrs == {0, 100, 200, 1000}
Shorts == {0, 2, 6, 8, 65535}
NoOpcodeCall == [called |-> FALSE, params |-> 0, rel |-> 0, length_field |-> 0,
                 result |-> 0]

\* hook__log_printfs: the number of '%' in the format string, and the
\* register offsets the hook is bound with.
ArgCounts == 0..10
RegisterOffsets == {0, 1}
NoPrintfCall == [called |-> FALSE, register_offset |-> 0, args_count |-> 0,
                 emitted |-> FALSE, registers |-> <<>>]

\* A field of the dungeon map as _update_maps reads it: the base terrain type
\* (by the member its value names), the four flags, what lies on the floor
\* (an item, or a trap that is a wonder tile or not), whether its stair type
\* is not NONE, and the monster on it with the flags of its extended data.
BaseTerrainTypes == {"WALL", "FLOOR"}
EntitiesOnFloor == {"none", "item", "wonder_tile_trap", "other_trap"}
AllyFlags == 0..2
NoMonster == [present |-> FALSE, enemy_flag |-> FALSE, ally_flag |-> 0,
              teamleader_flag |-> FALSE]
Monsters ==
    {NoMonster} \cup [present : {TRUE}, enemy_flag : BOOLEAN, ally_flag : AllyFlags,
                      teamleader_flag : BOOLEAN]
MapFields ==
    [terrain_type : BaseTerrainTypes, is_impassable_wall : BOOLEAN,
     is_natural_junction : BOOLEAN, is_in_monster_house : BOOLEAN,
     is_in_kecleon_shop : BOOLEAN, entity_on_floor : EntitiesOnFloor,
     has_stairs : BOOLEAN, monster_on_tile : Monsters]
NoTile == [rendered |-> FALSE,
           map_field |-> [terrain_type |-> "WALL", is_impassable_wall |-> FALSE,
                          is_natural_junction |-> FALSE, is_in_monster_house |-> FALSE,
                          is_in_kecleon_shop |-> FALSE, entity_on_floor |-> "none",
                          has_stairs |-> FALSE, monster_on_tile |-> NoMonster],
           terrain_type |-> "WALL", floor_type |-> "NONE", monster_type |-> "NONE"]

\* The ARM9 registers the debug hooks touch, and the values the model gives
\* them: r0 is the condition hook__debug_mode inverts, r6 the raw opcode
\* hook__log_debug_print dispatches on.
Registers == {0, 6}
R0Values == {0, 1, 2, 2147483647}
DebugPrintOps == {106, 107, 108, 109, 110}
\* hook__debug_mode was not invoked since r0 was last written by the game.
NoDebugModeCall == [calls |-> 0, first_r0 |-> 0, enabled |-> FALSE]
\* hook__log_debug_print was not invoked.
NoDebugPrintCall ==
    [called |-> FALSE, logging |-> FALSE, current_op |-> 0, line |-> "none",
     scenario |-> -1, level |-> -1, raised |-> FALSE]

VARIABLES
    \* DebuggerController fields (ground_engine_state: 0 is None, n > 0 the
    \* n-th Ground Engine State constructed)
    is_active, rom_data, ground_engine_state, breakpoint_manager,
    breakpoints_disabled, breakpoints_disabled_for_tick, breakpoint_force,
    log_operations, log_ground_engine_state,
    \* module-level lock of controller/debugger.py: "free" or its holder
    debugger_state_lock,
    \* Ground Engine State objects: how many were constructed, the
    \* logging_enabled of the current one, the ones whose watches are active
    ges_constructed, ges_logging_enabled, ges_watching,
    \* Breakpoint Manager: its temporary breakpoints, in registration order
    temporary_breakpoints,
    \* emulator: exec hooks by address, tick id, tasks queued onto its thread
    hooks, current_frame_id, pending_tasks,
    \* emulator thread inside hook__breaking_point: position, the struct
    \* built at entry, what loaded_ssb_files and breakpoint_manager.has
    \* answer for this hit, the Breakpoint State of the break
    pc, srs, hit, state,
    \* UI thread: callbacks in flight to it, and whether it holds the
    \* Breakpoint State handed over by break_pulled
    gtk_queue, ui_state,
    \* the remaining logging toggles of the controller
    log_debug_print, log_printfs, debug_mode,
    \* emulator thread inside the wait loop: the parity of the number of
    \* iterations of this pause that ran a task
    wait_iterations,
    \* module-level lock of model/address_container.py (0: free, else the
    \* thread holding it), the _address of each container, each thread's call
    \* in progress; the values passed to set() and the value of the last
    \* set() that returned, per container
    container_lock, address, calls, values_set, last_set,
    \* DungeonStateController fields (dungeon_assets: the three archives
    \* fetched from the context), its two list models as the tiles whose image
    \* each entry shows, the pending refresh timers, and what the last tick did
    dungeon_is_loaded, dungeon_rom_data, dungeon_state, dungeon_assets,
    current_cached_tilemap_id, current_cached_full_map_provider,
    small_map_model, full_map_model, timers, tick,
    \* emulator memory: whether the Dungeon State reads as valid (a dungeon
    \* is being played)
    dungeon_valid,
    \* the last call of _get_next_opcode_addr: the params of the opcode at
    \* current_opcode_addr, the short at current_opcode_addr + 2, the
    \* relative address passed, and the address returned
    opcode_call,
    \* the last invocation of hook__log_printfs: the offset it is bound with,
    \* the arity of the format string, whether a line was emitted and the
    \* registers its arguments were read from, in order
    printf_call,
    \* the last tile the loop of _update_maps went through: its map field and
    \* the three types the small-map image is looked up with
    tile,
    \* emu.memory.register_arm9
    register_arm9,
    \* the invocations of hook__debug_mode since the game last wrote a
    \* register or the mode was off: how many in a row (1 or 2), r0 at the
    \* first of them, and whether debug mode was on at each
    debug_mode_call,
    \* the last invocation of hook__log_debug_print: the opcode in r6, the
    \* prefix of the line it emitted, and for debug_PrintScenario the
    \* sub-index whose value each of the two fields of the line carries
    debug_print_call

debugger_vars == <<is_active, rom_data, ground_engine_state, breakpoint_manager,
          breakpoints_disabled, breakpoints_disabled_for_tick, breakpoint_force,
          log_operations, log_ground_engine_state, debugger_state_lock,
          ges_constructed, ges_logging_enabled, ges_watching,
          temporary_breakpoints, hooks, current_frame_id, pending_tasks,
          pc, srs, hit, state, gtk_queue, ui_state>>

\* Toggles that only the logging hooks read.
toggle_vars == <<log_debug_print, log_printfs, debug_mode>>

\* State outside the breaking-point hook's reach.
\* Address Container state.
container_vars == <<container_lock, address, calls, values_set, last_set>>

\* State of the components the Debugger Controller does not touch.
\* Dungeon State Controller state.
dungeon_vars == <<dungeon_is_loaded, dungeon_rom_data, dungeon_state, dungeon_assets,
                  current_cached_tilemap_id, current_cached_full_map_provider,
                  small_map_model, full_map_model, timers, tick, dungeon_valid>>

\* The registers and the records of the debug hooks.
hook_vars == <<register_arm9, debug_mode_call, debug_print_call>>

far_vars == <<container_vars, dungeon_vars, opcode_call, printf_call, tile, hook_vars>>

aux_vars == <<toggle_vars, wait_iterations, far_vars>>

vars == <<debugger_vars, aux_vars>>

flag_vars == <<log_operations, log_ground_engine_state>>
ges_vars == <<ges_constructed, ges_logging_enabled, ges_watching>>
ui_vars == <<gtk_queue, ui_state>>

\* ------------------------------------------------------------------ Init
\* DebuggerController.__init__ on an emulator without exec hooks.
Init ==
    /\ is_active = FALSE
    /\ rom_data = None
    /\ ground_engine_state = 0
    /\ breakpoint_manager = None
    /\ breakpoints_disabled = FALSE
    /\ breakpoints_disabled_for_tick = -1
    /\ breakpoint_force = FALSE
    /\ log_operations = FALSE
    /\ log_ground_engine_state = FALSE
    /\ debugger_state_lock = "free"
    /\ ges_constructed = 0
    /\ ges_logging_enabled = FALSE
    /\ ges_watching = {}
    /\ temporary_breakpoints = <<>>
    /\ hooks = [a \in HookAddrs |-> None]
    /\ current_frame_id = 0
    /\ pending_tasks = 0
    /\ pc = "idle"
    /\ srs = NoSrs
    /\ hit = NoHit
    /\ state = NoState
    /\ gtk_queue = <<>>
    /\ ui_state = FALSE
    /\ log_debug_print = FALSE
    /\ log_printfs = FALSE
    /\ debug_mode = FALSE
    /\ wait_iterations = 0
    /\ container_lock = 0
    /\ address = [c \in Containers |-> InitialAddress]
    /\ calls = [t \in Threads |-> NoCall]
    /\ values_set = [c \in Containers |-> {}]
    /\ last_set = [c \in Containers |-> InitialAddress]
    /\ dungeon_is_loaded = FALSE
    /\ dungeon_rom_data = None
    /\ dungeon_state = None
    /\ dungeon_assets = FALSE
    /\ current_cached_tilemap_id = 0
    /\ current_cached_full_map_provider = FALSE
    /\ small_map_model = <<>>
    /\ full_map_model = <<>>
    /\ timers = 1
    /\ tick = NoTick
    /\ dungeon_valid = FALSE
    /\ opcode_call = NoOpcodeCall
    /\ printf_call = NoPrintfCall
    /\ tile = NoTile
    /\ register_arm9 = [r \in Registers |-> 0]
    /\ debug_mode_call = NoDebugModeCall
    /\ debug_print_call = NoDebugPrintCall

\* ------------------------------------------------- enable / disable (UI)
\* emu.memory.register_exec(pnt, cb), run on the emulator thread: one
\* callback per address, None removes it.
register_exec(h, pnt, cb) == [h EXCEPT ![pnt] = cb]

\* EnableHooks with the second printf hook registered at the address of the
\* first.
EnableHooks_SameAddress(h) ==
    LET h1 == register_exec(h, BreakingPointAddr, "hook__breaking_point")
        h2 == register_exec(h1, DebugPrintAddr, "hook__log_printfs(1)")
        h3 == register_exec(h2, DebugPrintAddr, "hook__log_printfs(0)")
        h4 == register_exec(h3, LogDebugPrintAddr, "hook__log_debug_print")
    IN  register_exec(h4, DebugModeAddr, "hook__debug_mode")

\* The five registrations of enable().
EnableHooks(h) ==
    LET h1 == register_exec(h, BreakingPointAddr, "hook__breaking_point")
        h2 == register_exec(h1, DebugPrintAddr, "hook__log_printfs(1)")
        h3 == register_exec(h2, DebugPrint2Addr, "hook__log_printfs(0)")
        h4 == register_exec(h3, LogDebugPrintAddr, "hook__log_debug_print")
    IN  register_exec(h4, DebugModeAddr, "hook__debug_mode")

\* DisableHooks that leaves the debug-mode hook registered.
DisableHooks_LeavesOne(h) ==
    LET h1 == register_exec(h, BreakingPointAddr, None)
        h2 == register_exec(h1, DebugPrintAddr, None)
        h3 == register_exec(h2, DebugPrint2Addr, None)
    IN  register_exec(h3, LogDebugPrintAddr, None)

\* The five registrations of disable().
DisableHooks(h) ==
    LET h1 == register_exec(h, BreakingPointAddr, None)
        h2 == register_exec(h1, DebugPrintAddr, None)
        h3 == register_exec(h2, DebugPrint2Addr, None)
        h4 == register_exec(h3, LogDebugPrintAddr, None)
    IN  register_exec(h4, DebugModeAddr, None)

\* DebuggerController.enable: a new Ground Engine State is constructed, given
\* the controller's logging flag and watched; a previous one is not unwatched.
Enable(rom, manager) ==
    /\ UNCHANGED aux_vars
    /\ pc = "idle"
    /\ ges_constructed < MaxGes
    /\ rom_data' = rom
    /\ breakpoint_manager' = manager
    /\ hooks' = EnableHooks(hooks)
    /\ ges_constructed' = ges_constructed + 1
    /\ ground_engine_state' = ges_constructed + 1
    /\ ges_logging_enabled' = log_ground_engine_state
    /\ ges_watching' = ges_watching \cup {ges_constructed + 1}
    /\ UNCHANGED <<is_active, breakpoints_disabled, breakpoints_disabled_for_tick,
                   breakpoint_force, flag_vars, debugger_state_lock,
                   temporary_breakpoints, current_frame_id, pending_tasks,
                   pc, srs, hit, state, ui_vars>>

\* DebuggerController.disable (with rom_data None it raises at its first
\* line and changes nothing)
Disable ==
    /\ UNCHANGED aux_vars
    /\ pc = "idle"
    /\ rom_data # None
    /\ hooks' = DisableHooks(hooks)
    /\ is_active' = FALSE
    /\ rom_data' = None
    /\ ges_watching' = ges_watching \ {ground_engine_state}
    /\ ground_engine_state' = 0
    /\ UNCHANGED <<breakpoint_manager, breakpoints_disabled,
                   breakpoints_disabled_for_tick, breakpoint_force, flag_vars,
                   debugger_state_lock, ges_constructed, ges_logging_enabled,
                   temporary_breakpoints, current_frame_id, pending_tasks,
                   pc, srs, hit, state, ui_vars>>

\* ------------------------------------------------- Breakpoint Manager
\* BreakpointManager.reset_temporary
reset_temporary(temporary) == <<>>

\* BreakpointManager.add_temporary(type, slot, opcode_addr=None,
\* is_in_unionall=None): an argument left out is the empty set, one given
\* is the singleton of its value.
add_temporary(temporary, type, slot, opcode_addr, is_in_unionall) ==
    Append(temporary,
           [script_target_type |-> type, script_target_slot_id |-> slot,
            opcode_addr |-> opcode_addr, is_in_unionall |-> is_in_unionall])

\* ------------------------------------ hook__breaking_point (emulator thread)
\* threadsafe_gtk_nonblocking: the callback is queued for the UI thread.
threadsafe_gtk_nonblocking(queue, callback) == Append(queue, callback)

\* Entry: acquire the lock, build the struct, trace the operation.  The struct
\* is a view over emulator memory whose fields are read when they are used;
\* srs holds them from the first read that matters, at the break.
HookEnter ==
    /\ UNCHANGED aux_vars
    /\ pc = "idle"
    /\ hooks[BreakingPointAddr] = "hook__breaking_point"
    /\ debugger_state_lock = "free"
    /\ Len(gtk_queue) + 2 <= MaxGtkQueue
    /\ debugger_state_lock' = "emulator"
    /\ gtk_queue' = IF log_operations
                      THEN threadsafe_gtk_nonblocking(gtk_queue, "print")
                      ELSE gtk_queue
    /\ pc' = "locked"
    /\ UNCHANGED <<is_active, rom_data, ground_engine_state, breakpoint_manager,
                   breakpoints_disabled, breakpoints_disabled_for_tick,
                   breakpoint_force, flag_vars, ges_vars, temporary_breakpoints,
                   hooks, current_frame_id, pending_tasks, srs, hit, state,
                   ui_state>>

\* EvaluatesBreakpoints as a hook that forgets to test for a manager.
EvaluatesBreakpoints_NoManagerTest(manager, disabled, disabled_for_tick, frame_id) ==
    /\ ~disabled
    /\ disabled_for_tick # frame_id

\* EvaluatesBreakpoints as a hook that does not look at the marker of the tick.
EvaluatesBreakpoints_IgnoresTick(manager, disabled, disabled_for_tick, frame_id) ==
    /\ manager # None
    /\ ~disabled

\* The conditions under which the hook goes on to evaluate breakpoints.
EvaluatesBreakpoints(manager, disabled, disabled_for_tick, frame_id) ==
    /\ manager # None
    /\ ~disabled
    /\ disabled_for_tick # frame_id

\* ReleasedLock as a hook that keeps the lock until the break is answered.
ReleasedLock_HeldAcrossWait(evaluates) == IF evaluates THEN "emulator" ELSE "free"

\* The lock when the tests are done: released before the hit is evaluated
\* and on both returning branches.
ReleasedLock(evaluates) == "free"

\* The lock is released on every branch; without a manager, with breakpoints
\* disabled or disabled for this tick the hook returns.  Otherwise h is what
\* the lookups of the evaluation will find.
HookCheck(h) ==
    /\ UNCHANGED aux_vars
    /\ pc = "locked"
    /\ debugger_state_lock' =
         ReleasedLock(EvaluatesBreakpoints(breakpoint_manager, breakpoints_disabled,
                                           breakpoints_disabled_for_tick,
                                           current_frame_id))
    /\ IF EvaluatesBreakpoints(breakpoint_manager, breakpoints_disabled,
                               breakpoints_disabled_for_tick, current_frame_id)
         THEN pc' = "unlocked" /\ hit' = h
         ELSE pc' = "idle" /\ hit' = NoHit
    /\ UNCHANGED <<is_active, rom_data, ground_engine_state, breakpoint_manager,
                   breakpoints_disabled, breakpoints_disabled_for_tick,
                   breakpoint_force, flag_vars, ges_vars, temporary_breakpoints,
                   hooks, current_frame_id, pending_tasks, srs, state, ui_vars>>

\* Breaks as a hook that does not look at the force flag.
Breaks_OnlyOnMatch(ssb, force, has) == ssb /\ has

\* Breaks as a hook whose force flag breaks without a loaded script file.
Breaks_ForceWithoutScript(ssb, force, has) == force \/ (ssb /\ has)

\* Whether the hit breaks.
Breaks(ssb, force, has) == ssb /\ (force \/ has)

\* HookEvaluate as a hook that leaves the force flag set at a break.
HookEvaluate_KeepsForce(s) ==
    /\ UNCHANGED aux_vars
    /\ pc = "unlocked"
    /\ breakpoints_disabled_for_tick' = -1
    /\ hit' = NoHit
    /\ IF Breaks(hit.ssb, breakpoint_force, hit.has)
         THEN /\ temporary_breakpoints' = reset_temporary(temporary_breakpoints)
              /\ breakpoint_force' = breakpoint_force
              /\ state' = [hanger_id |-> s.hanger_ssb, state |-> STOPPED,
                           signalled |-> FALSE]
              /\ gtk_queue' = threadsafe_gtk_nonblocking(gtk_queue, "break_pulled")
              /\ pc' = "waiting"
              /\ srs' = s
         ELSE /\ pc' = "idle"
              /\ UNCHANGED <<temporary_breakpoints, breakpoint_force, state,
                             gtk_queue, srs>>
    /\ UNCHANGED <<is_active, rom_data, ground_engine_state, breakpoint_manager,
                   breakpoints_disabled, flag_vars, debugger_state_lock, ges_vars,
                   hooks, current_frame_id, pending_tasks, ui_state>>

\* The marker is reset; on a break the temporaries and the force flag are
\* cleared, a Breakpoint State is created and acquired and break_pulled is
\* dispatched to the UI thread.  s is the struct as the hook reads it.
HookEvaluate(s) ==
    /\ UNCHANGED aux_vars
    /\ pc = "unlocked"
    /\ breakpoints_disabled_for_tick' = -1
    /\ hit' = NoHit
    /\ IF Breaks(hit.ssb, breakpoint_force, hit.has)
         THEN /\ temporary_breakpoints' = reset_temporary(temporary_breakpoints)
              /\ breakpoint_force' = FALSE
              /\ state' = [hanger_id |-> s.hanger_ssb, state |-> STOPPED,
                           signalled |-> FALSE]
              /\ gtk_queue' = threadsafe_gtk_nonblocking(gtk_queue, "break_pulled")
              /\ pc' = "waiting"
              /\ srs' = s
         ELSE /\ pc' = "idle"
              /\ UNCHANGED <<temporary_breakpoints, breakpoint_force, state,
                             gtk_queue, srs>>
    /\ UNCHANGED <<is_active, rom_data, ground_engine_state, breakpoint_manager,
                   breakpoints_disabled, flag_vars, debugger_state_lock, ges_vars,
                   hooks, current_frame_id, pending_tasks, ui_state>>

\* WaitLoopContinues with the comparison of the state inverted.
WaitLoopContinues_Inverted(st) == ~st.signalled /\ st.state # STOPPED

\* WaitLoopContinues as a loop that is left only when the signal is raised.
WaitLoopContinues_UntilSignalled(st) == ~st.signalled

\* The wait loop's condition: the wait timed out and the state is STOPPED.
WaitLoopContinues(st) == ~st.signalled /\ st.state = STOPPED

\* TasksAfterIteration as a loop that runs every queued task.
TasksAfterIteration_RunsAll(n) == 0

\* The tasks still queued after the loop body: one was run.
TasksAfterIteration(n) == n - 1

\* One iteration of the wait loop: run_one_pending_task.
HookWait ==
    /\ UNCHANGED <<toggle_vars, far_vars>>
    /\ pc = "waiting"
    /\ WaitLoopContinues(state)
    /\ pending_tasks > 0
    /\ pending_tasks' = TasksAfterIteration(pending_tasks)
    /\ wait_iterations' = IF pending_tasks' < pending_tasks
                            THEN 1 - wait_iterations
                            ELSE wait_iterations
    /\ UNCHANGED <<is_active, rom_data, ground_engine_state, breakpoint_manager,
                   breakpoints_disabled, breakpoints_disabled_for_tick,
                   breakpoint_force, flag_vars, debugger_state_lock, ges_vars,
                   temporary_breakpoints, hooks, current_frame_id,
                   pc, srs, hit, state, ui_vars>>

\* DisabledForTickAfter as a hook that does not record the tick on FAIL_HARD.
DisabledForTickAfter_Forgets(st, disabled_for_tick, frame_id) == disabled_for_tick

\* The marker after the state st was observed.
DisabledForTickAfter(st, disabled_for_tick, frame_id) ==
    IF st = FAIL_HARD THEN frame_id ELSE disabled_for_tick

\* ForceAfter as a hook that arms the forced break on RESUME as well.
ForceAfter_OnResume(st, force) == IF st \in {STEP_NEXT, RESUME} THEN TRUE ELSE force

\* The force flag after the state st was observed.
ForceAfter(st, force) == IF st = STEP_NEXT THEN TRUE ELSE force

\* StepInto as a hook that confines the breakpoint to the shared-code flag.
StepInto_Confined(temporary, s) ==
    add_temporary(temporary, s.script_target_type, s.script_target_slot_id, {},
                  {s.is_in_unionall})

\* STEP_INTO: whatever is executed next for the current script target.
StepInto(temporary, s) ==
    add_temporary(temporary, s.script_target_type, s.script_target_slot_id, {}, {})

\* StepOver as a hook that leaves out the call-stack breakpoint.
StepOver_NoCallStack(temporary, s) ==
    add_temporary(temporary, s.script_target_type, s.script_target_slot_id, {},
                  {s.is_in_unionall})

\* STEP_OVER: the next opcode of the current script file and, with a call
\* stack, the opcode on the call stack.
StepOver(temporary, s) ==
    LET t1 == add_temporary(temporary, s.script_target_type,
                            s.script_target_slot_id, {}, {s.is_in_unionall})
    IN  IF s.has_call_stack
          THEN add_temporary(t1, s.script_target_type, s.script_target_slot_id,
                             {s.call_stack__current_opcode_addr_relative}, {})
          ELSE t1

\* StepOut as a hook that always registers the call-stack breakpoint.
StepOut_Always(temporary, s) ==
    add_temporary(temporary, s.script_target_type, s.script_target_slot_id,
                  {s.call_stack__current_opcode_addr_relative}, {})

\* STEP_OUT: the opcode on the call stack, if there is one.
StepOut(temporary, s) ==
    IF s.has_call_stack
      THEN add_temporary(temporary, s.script_target_type, s.script_target_slot_id,
                         {s.call_stack__current_opcode_addr_relative}, {})
      ELSE temporary

\* The temporary breakpoints after the state st was observed.
TemporaryAfter(st, temporary, s) ==
    CASE st = STEP_INTO -> StepInto(temporary, s)
      [] st = STEP_OVER -> StepOver(temporary, s)
      [] st = STEP_OUT -> StepOut(temporary, s)
      [] OTHER -> temporary

\* The loop is left, the state released and its outcome applied.
HookResume ==
    /\ UNCHANGED <<toggle_vars, far_vars>>
    /\ wait_iterations' = 0
    /\ pc = "waiting"
    /\ ~WaitLoopContinues(state)
    /\ breakpoints_disabled_for_tick' =
         DisabledForTickAfter(state.state, breakpoints_disabled_for_tick,
                              current_frame_id)
    /\ breakpoint_force' = ForceAfter(state.state, breakpoint_force)
    /\ temporary_breakpoints' = TemporaryAfter(state.state, temporary_breakpoints, srs)
    /\ pc' = "idle"
    /\ srs' = NoSrs
    /\ state' = NoState
    /\ UNCHANGED <<is_active, rom_data, ground_engine_state, breakpoint_manager,
                   breakpoints_disabled, flag_vars, debugger_state_lock, ges_vars,
                   hooks, current_frame_id, pending_tasks, hit, ui_vars>>

\* ------------------------------------------------------------- UI thread
\* The UI thread runs the next callback queued for it; break_pulled hands it
\* the Breakpoint State.
GtkDispatch ==
    /\ UNCHANGED aux_vars
    /\ gtk_queue # <<>>
    /\ gtk_queue' = Tail(gtk_queue)
    /\ ui_state' = IF Head(gtk_queue) = "break_pulled" THEN TRUE ELSE ui_state
    /\ UNCHANGED <<is_active, rom_data, ground_engine_state, breakpoint_manager,
                   breakpoints_disabled, breakpoints_disabled_for_tick,
                   breakpoint_force, flag_vars, debugger_state_lock, ges_vars,
                   temporary_breakpoints, hooks, current_frame_id, pending_tasks,
                   pc, srs, hit, state>>

\* The operator answers the break: the UI thread sets the state it holds to
\* one of the six outcomes; the signal may or may not reach the waiter
\* before its next timeout.
Respond(outcome, notify) ==
    /\ UNCHANGED aux_vars
    /\ ui_state
    /\ state.state = STOPPED
    /\ state' = [state EXCEPT !.state = outcome, !.signalled = notify]
    /\ ui_state' = FALSE
    /\ UNCHANGED <<is_active, rom_data, ground_engine_state, breakpoint_manager,
                   breakpoints_disabled, breakpoints_disabled_for_tick,
                   breakpoint_force, flag_vars, debugger_state_lock, ges_vars,
                   temporary_breakpoints, hooks, current_frame_id, pending_tasks,
                   pc, srs, hit, gtk_queue>>

\* breakpoints_disabled setter (not synchronized)
SetBreakpointsDisabled(val) ==
    /\ UNCHANGED aux_vars
    /\ breakpoints_disabled # val
    /\ breakpoints_disabled' = val
    /\ UNCHANGED <<is_active, rom_data, ground_engine_state, breakpoint_manager,
                   breakpoints_disabled_for_tick, breakpoint_force, flag_vars,
                   debugger_state_lock, ges_vars, temporary_breakpoints, hooks,
                   current_frame_id, pending_tasks, pc, srs, hit, state, ui_vars>>

\* DebuggerController.log_operations, synchronized on debugger_state_lock
SetLogOperations(value) ==
    /\ UNCHANGED aux_vars
    /\ debugger_state_lock = "free"
    /\ log_operations # value
    /\ log_operations' = value
    /\ UNCHANGED <<is_active, rom_data, ground_engine_state, breakpoint_manager,
                   breakpoints_disabled, breakpoints_disabled_for_tick,
                   breakpoint_force, log_ground_engine_state, debugger_state_lock,
                   ges_vars, temporary_breakpoints, hooks, current_frame_id,
                   pending_tasks, pc, srs, hit, state, ui_vars>>

\* DebuggerController.log_debug_print, synchronized on debugger_state_lock
SetLogDebugPrint(value) ==
    /\ debugger_state_lock = "free"
    /\ log_debug_print # value
    /\ log_debug_print' = value
    /\ UNCHANGED <<debugger_vars, log_printfs, debug_mode, wait_iterations, far_vars>>

\* DebuggerController.log_printfs, synchronized on debugger_state_lock
SetLogPrintfs(value) ==
    /\ debugger_state_lock = "free"
    /\ log_printfs # value
    /\ log_printfs' = value
    /\ UNCHANGED <<debugger_vars, log_debug_print, debug_mode, wait_iterations, far_vars>>

\* SetLogGroundEngineState as a setter that does not pass the flag on.
SetLogGroundEngineState_NoPropagation(value) ==
    /\ debugger_state_lock = "free"
    /\ log_ground_engine_state # value
    /\ log_ground_engine_state' = value
    /\ ges_logging_enabled' = ges_logging_enabled
    /\ UNCHANGED <<is_active, rom_data, ground_engine_state, breakpoint_manager,
                   breakpoints_disabled, breakpoints_disabled_for_tick,
                   breakpoint_force, log_operations, debugger_state_lock,
                   ges_constructed, ges_watching, temporary_breakpoints, hooks,
                   current_frame_id, pending_tasks, pc, srs, hit, state,
                   ui_vars, aux_vars>>

\* DebuggerController.log_ground_engine_state, synchronized on
\* debugger_state_lock: the flag is passed on to the Ground Engine State.
SetLogGroundEngineState(value) ==
    /\ debugger_state_lock = "free"
    /\ log_ground_engine_state # value
    /\ log_ground_engine_state' = value
    /\ ges_logging_enabled' = IF ground_engine_state # 0
                                THEN value
                                ELSE ges_logging_enabled
    /\ UNCHANGED <<is_active, rom_data, ground_engine_state, breakpoint_manager,
                   breakpoints_disabled, breakpoints_disabled_for_tick,
                   breakpoint_force, log_operations, debugger_state_lock,
                   ges_constructed, ges_watching, temporary_breakpoints, hooks,
                   current_frame_id, pending_tasks, pc, srs, hit, state,
                   ui_vars, aux_vars>>

\* SetDebugMode as a setter that does not take the lock.
SetDebugMode_Unsynchronized(value) ==
    /\ debug_mode # value
    /\ debug_mode' = value
    /\ UNCHANGED <<debugger_vars, log_debug_print, log_printfs, wait_iterations, far_vars>>

\* DebuggerController.debug_mode, synchronized on debugger_state_lock
SetDebugMode(value) ==
    /\ debugger_state_lock = "free"
    /\ debug_mode # value
    /\ debug_mode' = value
    /\ UNCHANGED <<debugger_vars, log_debug_print, log_printfs, wait_iterations, far_vars>>

\* The UI thread queues a task onto the emulator thread.
QueueTask ==
    /\ UNCHANGED aux_vars
    /\ pending_tasks < MaxPending
    /\ pending_tasks' = pending_tasks + 1
    /\ UNCHANGED <<is_active, rom_data, ground_engine_state, breakpoint_manager,
                   breakpoints_disabled, breakpoints_disabled_for_tick,
                   breakpoint_force, flag_vars, debugger_state_lock, ges_vars,
                   temporary_breakpoints, hooks, current_frame_id,
                   pc, srs, hit, state, ui_vars>>

\* ------------------------------------------------------------- emulator
\* Between hook invocations the emulator thread runs its queued tasks.
EmulatorRunTask ==
    /\ UNCHANGED aux_vars
    /\ pc = "idle"
    /\ pending_tasks > 0
    /\ pending_tasks' = pending_tasks - 1
    /\ UNCHANGED <<is_active, rom_data, ground_engine_state, breakpoint_manager,
                   breakpoints_disabled, breakpoints_disabled_for_tick,
                   breakpoint_force, flag_vars, debugger_state_lock, ges_vars,
                   temporary_breakpoints, hooks, current_frame_id,
                   pc, srs, hit, state, ui_vars>>

\* The emulator finishes a tick: the frame id advances.
Tick ==
    /\ UNCHANGED aux_vars
    /\ pc = "idle"
    /\ current_frame_id < MaxTick
    /\ current_frame_id' = current_frame_id + 1
    /\ UNCHANGED <<is_active, rom_data, ground_engine_state, breakpoint_manager,
                   breakpoints_disabled, breakpoints_disabled_for_tick,
                   breakpoint_force, flag_vars, debugger_state_lock, ges_vars,
                   temporary_breakpoints, hooks, pending_tasks,
                   pc, srs, hit, state, ui_vars>>

Next ==
    \/ \E rom \in Roms, manager \in Managers : Enable(rom, manager)
    \/ Disable
    \/ HookEnter
    \/ \E h \in Hits : HookCheck(h)
    \/ \E s \in Srs : HookEvaluate(s)
    \/ HookWait
    \/ HookResume
    \/ GtkDispatch
    \/ \E outcome \in Outcomes, notify \in BOOLEAN : Respond(outcome, notify)
    \/ \E val \in BOOLEAN : SetBreakpointsDisabled(val)
    \/ \E value \in BOOLEAN : SetLogOperations(value)
    \/ QueueTask
    \/ EmulatorRunTask
    \/ Tick

Spec == Init /\ [][Next]_vars

\* ------------------------------------------------- the logging toggles
\* The breaking-point hook against the five synchronized setters.
SettersNext ==
    \/ \E rom \in Roms, manager \in Managers : Enable(rom, manager)
    \/ Disable
    \/ HookEnter
    \/ \E h \in Hits : HookCheck(h)
    \/ \E s \in Srs : HookEvaluate(s)
    \/ HookResume
    \/ GtkDispatch
    \/ \E outcome \in Outcomes, notify \in BOOLEAN : Respond(outcome, notify)
    \/ \E value \in BOOLEAN : SetLogOperations(value)
    \/ \E value \in BOOLEAN : SetLogDebugPrint(value)
    \/ \E value \in BOOLEAN : SetLogPrintfs(value)
    \/ \E value \in BOOLEAN : SetLogGroundEngineState(value)
    \/ \E value \in BOOLEAN : SetDebugMode(value)

SettersSpec == Init /\ [][SettersNext]_vars

\* ------------------------------------------------- the controller-wide lock
\* Everything that reads or writes the controller's flags and its rom and
\* state references: enable and disable, the setters, and the breaking-point
\* hook with the answers of the UI thread.  The hook's bookkeeping on the
\* flags depends on the answer only through FAIL_HARD and STEP_NEXT, and not
\* on the struct: the stepping answers and all structs but one are left to
\* Spec.
LockOutcomes == {RESUME, STEP_NEXT, FAIL_HARD}
LockSrs == { s \in Srs : /\ s.hanger_ssb = 0 /\ s.script_target_type = "ACTOR"
                         /\ s.script_target_slot_id = 0 /\ ~s.is_in_unionall
                         /\ ~s.has_call_stack }

LockNext ==
    \/ \E rom \in Roms, manager \in Managers : Enable(rom, manager)
    \/ Disable
    \/ HookEnter
    \/ \E h \in Hits : HookCheck(h)
    \/ \E s \in LockSrs : HookEvaluate(s)
    \/ HookResume
    \/ GtkDispatch
    \/ \E outcome \in LockOutcomes, notify \in BOOLEAN : Respond(outcome, notify)
    \/ Tick
    \/ \E val \in BOOLEAN : SetBreakpointsDisabled(val)
    \/ \E value \in BOOLEAN : SetLogOperations(value)
    \/ \E value \in BOOLEAN : SetLogDebugPrint(value)
    \/ \E value \in BOOLEAN : SetLogPrintfs(value)
    \/ \E value \in BOOLEAN : SetLogGroundEngineState(value)
    \/ \E value \in BOOLEAN : SetDebugMode(value)

LockSpec == Init /\ [][LockNext]_vars

\* ------------------------------------------------------ Address Container
\* Everything outside the Address Container.
not_container_vars == <<debugger_vars, toggle_vars, wait_iterations, dungeon_vars,
                        opcode_call, printf_call, tile, hook_vars>>

\* A thread calls get() of a container: it goes for the lock.
CallGet(t, c) ==
    /\ calls[t].op = "idle"
    /\ calls' = [calls EXCEPT ![t] = [NoCall EXCEPT !.op = "get", !.at = "acquire",
                                                    !.container = c]]
    /\ UNCHANGED <<container_lock, address, values_set, last_set, not_container_vars>>

\* A thread calls set(value) of a container: it goes for the lock.
CallSet(t, c, value) ==
    /\ calls[t].op = "idle"
    /\ calls' = [calls EXCEPT ![t] = [NoCall EXCEPT !.op = "set", !.at = "acquire",
                                                    !.container = c, !.value = value]]
    /\ values_set' = [values_set EXCEPT ![c] = @ \cup {value}]
    /\ UNCHANGED <<container_lock, address, last_set, not_container_vars>>

\* synchronized_now(container_lock): the body runs once the lock is free.
Acquirable(lock) == lock = 0

\* The thread takes the one lock shared by all containers.
Acquire(t) ==
    /\ calls[t].at = "acquire"
    /\ Acquirable(container_lock)
    /\ container_lock' = t
    /\ calls' = [calls EXCEPT ![t].at = "body"]
    /\ UNCHANGED <<address, values_set, last_set, not_container_vars>>

\* get as a method that answers the constructor's value.
get_Stale(a) == InitialAddress

\* AddressContainer.get: return self._address
get(a) == a

\* AddressContainer.set: self._address = value
set(adr, c, value) == [adr EXCEPT ![c] = value]

\* The body of get() runs under the lock.
GetBody(t) ==
    /\ calls[t].op = "get" /\ calls[t].at = "body"
    /\ calls' = [calls EXCEPT ![t].result = get(address[calls[t].container]),
                              ![t].at = "release"]
    /\ UNCHANGED <<container_lock, address, values_set, last_set, not_container_vars>>

\* The body of set() runs under the lock.
SetBody(t) ==
    /\ calls[t].op = "set" /\ calls[t].at = "body"
    /\ address' = set(address, calls[t].container, calls[t].value)
    /\ calls' = [calls EXCEPT ![t].at = "release"]
    /\ UNCHANGED <<container_lock, values_set, last_set, not_container_vars>>

\* The call returns: the lock is released.
Release(t) ==
    /\ calls[t].at = "release"
    /\ container_lock' = 0
    /\ last_set' = IF calls[t].op = "set"
                     THEN [last_set EXCEPT ![calls[t].container] = calls[t].value]
                     ELSE last_set
    /\ calls' = [calls EXCEPT ![t] = NoCall]
    /\ UNCHANGED <<address, values_set, not_container_vars>>

ContainerNext ==
    \/ \E t \in Threads, c \in Containers : CallGet(t, c)
    \/ \E t \in Threads, c \in Containers, value \in Addresses : CallSet(t, c, value)
    \/ \E t \in Threads : Acquire(t)
    \/ \E t \in Threads : GetBody(t)
    \/ \E t \in Threads : SetBody(t)
    \/ \E t \in Threads : Release(t)

ContainerSpec == Init /\ [][ContainerNext]_vars

\* ------------------------------------------------ Dungeon State Controller
\* Everything outside the Dungeon State Controller.
not_dungeon_vars == <<debugger_vars, toggle_vars, wait_iterations, container_vars,
                      opcode_call, printf_call, tile, hook_vars>>

\* DungeonStateController.enable.  It marks the controller loaded and keeps
\* rom_data first; raised_at is where it raises, if it does: at the address
\* lookups or the DungeonState construction ("addresses"), or at one of the
\* context's getters ("assets").
DungeonEnable(rom, raised_at) ==
    /\ dungeon_is_loaded' = TRUE
    /\ dungeon_rom_data' = rom
    /\ dungeon_state' = IF raised_at = "addresses" THEN dungeon_state ELSE "DungeonState"
    /\ dungeon_assets' = IF raised_at = "none" THEN TRUE ELSE dungeon_assets
    /\ UNCHANGED <<current_cached_tilemap_id, current_cached_full_map_provider,
                   small_map_model, full_map_model, timers, tick, dungeon_valid,
                   not_dungeon_vars>>

\* DungeonStateController.disable
DungeonDisable ==
    /\ dungeon_is_loaded' = FALSE
    /\ dungeon_rom_data' = None
    /\ UNCHANGED <<dungeon_state, dungeon_assets,
                   current_cached_tilemap_id, current_cached_full_map_provider,
                   small_map_model, full_map_model, timers, tick, dungeon_valid,
                   not_dungeon_vars>>

\* Renders as a tick that does not look at is_loaded.
Renders_Unloaded(is_loaded, valid) == valid

\* The condition of _update_maps; valid is only read when is_loaded holds.
Renders(is_loaded, valid) == is_loaded /\ valid

\* _get_current_full_map_provider returns the cached provider.
ProviderCached == current_cached_tilemap_id = 1 /\ current_cached_full_map_provider

\* Building the provider raises: without the dungeon archive, or at fail.
ProviderRaises(fail) == ~ProviderCached /\ (~dungeon_assets \/ fail.at = "provider")

\* The try block raises at fail: the exception is caught at its end.
Raises(fail) ==
    \/ fail.at \in {"load_map", "tile", "full_pixbuf"}
    \/ ProviderRaises(fail)

\* Appended as a loop that appends the full-map image of a tile before it
\* looks up the small-map image.
Appended_FullFirst(fail, full) ==
    CASE fail.at = "load_map" -> 0
      [] ProviderRaises(fail) -> 0
      [] fail.at = "tile" -> IF full THEN fail.tile + 1 ELSE fail.tile
      [] fail.at = "full_pixbuf" -> fail.tile
      [] OTHER -> TileCount

\* The tiles whose small-map image (full = FALSE) or full-map image
\* (full = TRUE) the loop appends before it ends or raises at fail.
Appended(fail, full) ==
    CASE fail.at = "load_map" -> 0
      [] ProviderRaises(fail) -> 0
      [] fail.at = "tile" -> fail.tile
      [] fail.at = "full_pixbuf" -> IF full THEN fail.tile ELSE fail.tile + 1
      [] OTHER -> TileCount

\* The list after the loop: one entry per tile, in the order of the loop.
Model(n) == [i \in 1..n |-> <<TileX(i - 1), TileY(i - 1)>>]

\* RearmedAfter as a tick that re-arms the timer only when it rendered.
RearmedAfter_OnlyRendering(t, renders) == IF renders THEN t ELSE t - 1

\* The pending timers after a tick that reached its last line: the one that
\* fired is gone, one is added.
RearmedAfter(t, renders) == t - 1 + 1

\* DungeonStateController._update_maps, run by a pending timer.  With the
\* controller loaded and no Dungeon State, reading its valid flag raises
\* outside the try block.
UpdateMaps(fail) ==
    /\ timers > 0
    /\ IF dungeon_is_loaded /\ dungeon_state = None
         THEN /\ small_map_model' = <<>>
              /\ full_map_model' = <<>>
              /\ timers' = timers - 1
              /\ tick' = [NoTick EXCEPT !.read_valid = TRUE, !.escaped = TRUE]
              /\ UNCHANGED <<current_cached_tilemap_id,
                             current_cached_full_map_provider>>
         ELSE IF Renders(dungeon_is_loaded, dungeon_valid)
           THEN /\ small_map_model' = Model(Appended(fail, FALSE))
                /\ full_map_model' = Model(Appended(fail, TRUE))
                /\ current_cached_tilemap_id' =
                     IF fail.at = "load_map" THEN current_cached_tilemap_id ELSE 1
                /\ current_cached_full_map_provider' =
                     IF fail.at = "load_map" \/ ProviderRaises(fail)
                       THEN current_cached_full_map_provider ELSE TRUE
                /\ timers' = RearmedAfter(timers, TRUE)
                /\ tick' = [read_valid |-> TRUE, load_map |-> TRUE,
                            provider |-> fail.at # "load_map",
                            rearmed |-> 1, escaped |-> FALSE,
                            caught |-> Raises(fail)]
           ELSE /\ small_map_model' = <<>>
                /\ full_map_model' = <<>>
                /\ timers' = RearmedAfter(timers, FALSE)
                /\ tick' = [NoTick EXCEPT !.read_valid = dungeon_is_loaded,
                                          !.rearmed = 1]
                /\ UNCHANGED <<current_cached_tilemap_id,
                               current_cached_full_map_provider>>
    /\ UNCHANGED <<dungeon_is_loaded, dungeon_rom_data, dungeon_state,
                   dungeon_assets, dungeon_valid, not_dungeon_vars>>

\* The game enters or leaves a dungeon.
DungeonMemoryChanges ==
    /\ dungeon_valid' = ~dungeon_valid
    /\ UNCHANGED <<dungeon_is_loaded, dungeon_rom_data, dungeon_state, dungeon_assets,
                   current_cached_tilemap_id, current_cached_full_map_provider,
                   small_map_model, full_map_model, timers, tick, not_dungeon_vars>>

DungeonNext ==
    \/ \E rom \in Roms, raised_at \in {"none", "addresses", "assets"} :
         DungeonEnable(rom, raised_at)
    \/ DungeonDisable
    \/ \E fail \in FailPoints : UpdateMaps(fail)
    \/ DungeonMemoryChanges

DungeonSpec == Init /\ [][DungeonNext]_vars

\* --------------------------------------------------- _get_next_opcode_addr
\* get_next_opcode_addr as a method that counts the length field in
\* two-byte units.
get_next_opcode_addr_LengthInShorts(params, length_field, current_opcode_addr_relative) ==
    LET len == IF params = -1
                 THEN 2 + 2 + 2 * length_field
                 ELSE 2 + 2 * params
    IN  current_opcode_addr_relative + len

\* DebuggerController._get_next_opcode_addr, for an opcode whose table entry
\* has these params and whose first parameter reads length_field.
get_next_opcode_addr(params, length_field, current_opcode_addr_relative) ==
    LET len == IF params = -1
                 THEN 2 + 2 + length_field
                 ELSE 2 + 2 * params
    IN  current_opcode_addr_relative + len

\* A call of _get_next_opcode_addr.
GetNextOpcodeAddr(params, length_field, rel) ==
    /\ opcode_call' = [called |-> TRUE, params |-> params, rel |-> rel,
                       length_field |-> length_field,
                       result |-> get_next_opcode_addr(params, length_field, rel)]
    /\ UNCHANGED <<debugger_vars, toggle_vars, wait_iterations, container_vars,
                   dungeon_vars, printf_call, tile, hook_vars>>

OpcodeNext ==
    \E params \in OpcodeParams, length_field \in Shorts, rel \in RelativeAddrs :
        GetNextOpcodeAddr(params, length_field, rel)

OpcodeSpec == Init /\ [][OpcodeNext]_vars

\* ---------------------------------------------------------- hook__log_printfs
\* ArgRegisters with the last two arguments of an arity-8 string read from
\* r7 and r8.
ArgRegisters_Arity8Fixed(register_offset, args_count) ==
    [i \in 1..args_count |->
       IF args_count = 7 /\ i = 7 THEN 8
       ELSE IF args_count = 8 /\ i >= 7 THEN i
       ELSE register_offset + i]

\* The registers hook__log_printfs reads the arguments from, in order, for a
\* format string with args_count '%': register_offset + i, but r8 for the
\* seventh of seven.
ArgRegisters(register_offset, args_count) ==
    [i \in 1..args_count |->
       IF args_count = 7 /\ i = 7 THEN 8 ELSE register_offset + i]

\* There is a branch for the arity.
Emits(args_count) == args_count \in 0..9

\* The callback enable() binds at the address, with its register offset.
PrintfHookAddr(register_offset) ==
    IF register_offset = 1 THEN DebugPrintAddr ELSE DebugPrint2Addr

PrintfHookCallback(register_offset) ==
    IF register_offset = 1 THEN "hook__log_printfs(1)" ELSE "hook__log_printfs(0)"

\* DebuggerController.hook__log_printfs, synchronized on debugger_state_lock,
\* run by the emulator thread at DebugPrint or DebugPrint2.
HookLogPrintfs(register_offset, args_count) ==
    /\ pc = "idle"
    /\ hooks[PrintfHookAddr(register_offset)] = PrintfHookCallback(register_offset)
    /\ debugger_state_lock = "free"
    /\ Len(gtk_queue) < MaxGtkQueue
    /\ IF log_printfs /\ Emits(args_count)
         THEN /\ printf_call' = [called |-> TRUE, register_offset |-> register_offset,
                                 args_count |-> args_count, emitted |-> TRUE,
                                 registers |-> ArgRegisters(register_offset, args_count)]
              /\ gtk_queue' = threadsafe_gtk_nonblocking(gtk_queue, "print")
         ELSE /\ printf_call' = [called |-> TRUE, register_offset |-> register_offset,
                                 args_count |-> args_count, emitted |-> FALSE,
                                 registers |-> <<>>]
              /\ gtk_queue' = gtk_queue
    /\ UNCHANGED <<is_active, rom_data, ground_engine_state, breakpoint_manager,
                   breakpoints_disabled, breakpoints_disabled_for_tick,
                   breakpoint_force, flag_vars, debugger_state_lock, ges_vars,
                   temporary_breakpoints, hooks, current_frame_id, pending_tasks,
                   pc, srs, hit, state, ui_state,
                   toggle_vars, wait_iterations, container_vars, dungeon_vars,
                   opcode_call, tile, hook_vars>>

PrintfNext ==
    \/ \E rom \in Roms, manager \in Managers : Enable(rom, manager)
    \/ Disable
    \/ \E value \in BOOLEAN : SetLogPrintfs(value)
    \/ \E register_offset \in RegisterOffsets, args_count \in ArgCounts :
         HookLogPrintfs(register_offset, args_count)
    \/ GtkDispatch

PrintfSpec == Init /\ [][PrintfNext]_vars

\* ------------------------------------------------------- the debug hooks
\* DebugModeR0 as a hook that sets the condition instead of inverting it.
DebugModeR0_Sets(r0) == 1

\* r0 as hook__debug_mode leaves it with debug mode on.
DebugModeR0(r0) == IF r0 = 0 THEN 1 ELSE 0

\* DebuggerController.hook__debug_mode, synchronized on debugger_state_lock.
HookDebugMode ==
    /\ pc = "idle"
    /\ hooks[DebugModeAddr] = "hook__debug_mode"
    /\ debugger_state_lock = "free"
    /\ register_arm9' = IF debug_mode
                          THEN [register_arm9 EXCEPT ![0] = DebugModeR0(@)]
                          ELSE register_arm9
    /\ debug_mode_call' =
         IF debug_mode_call.calls = 1
           THEN [debug_mode_call EXCEPT !.calls = 2,
                                        !.enabled = @ /\ debug_mode]
           ELSE [calls |-> 1, first_r0 |-> register_arm9[0], enabled |-> debug_mode]
    /\ UNCHANGED <<debugger_vars, toggle_vars, wait_iterations, container_vars,
                   dungeon_vars, opcode_call, printf_call, tile, debug_print_call>>

\* The game running on the emulated CPU writes a register.
EmulatorWritesRegister(r, v) ==
    /\ pc = "idle"
    /\ register_arm9[r] # v
    /\ register_arm9' = [register_arm9 EXCEPT ![r] = v]
    /\ debug_mode_call' = NoDebugModeCall
    /\ UNCHANGED <<debugger_vars, toggle_vars, wait_iterations, container_vars,
                   dungeon_vars, opcode_call, printf_call, tile, debug_print_call>>

\* GameVariable.read(mem, rom_data, var_id, read_offset, srs), called with the
\* memory first or with the ROM configuration first.  The decoder takes its
\* arguments in one order (mem_first); given the other, it raises or returns,
\* depending on how it uses them.
GameVariableReadRaises(mem_given_first, mem_first, swapped_outcome) ==
    mem_given_first # mem_first /\ swapped_outcome = "raises"

\* What hook__log_debug_print does for the opcode in r6 with logging enabled:
\* the prefix of the line it emits, for debug_PrintScenario the sub-index
\* whose value its scenario and its level field carry, or that it raised
\* before emitting.  The 0x6C branch calls GameVariable.read with the memory
\* first; the 0x6D branch calls it once with the ROM configuration first and
\* once with the memory first, and prints the value of the first call twice.
DebugPrint(current_op, mem_first, swapped_outcome) ==
    LET line(l, sc, lv) ==
            [line |-> l, scenario |-> sc, level |-> lv, raised |-> FALSE]
        raises == [line |-> "none", scenario |-> -1, level |-> -1, raised |-> TRUE]
    IN  CASE current_op = 107 -> line("debug_Print", -1, -1)
          [] current_op = 108 ->
               IF GameVariableReadRaises(TRUE, mem_first, swapped_outcome)
                 THEN raises
                 ELSE line("debug_PrintFlag", -1, -1)
          [] current_op = 109 ->
               IF \/ GameVariableReadRaises(FALSE, mem_first, swapped_outcome)
                  \/ GameVariableReadRaises(TRUE, mem_first, swapped_outcome)
                 THEN raises
                 ELSE line("debug_PrintScenario", 0, 0)
          [] OTHER -> line("none", -1, -1)

\* DebuggerController.hook__log_debug_print, synchronized on
\* debugger_state_lock.
HookLogDebugPrint(mem_first, swapped_outcome) ==
    /\ pc = "idle"
    /\ hooks[LogDebugPrintAddr] = "hook__log_debug_print"
    /\ debugger_state_lock = "free"
    /\ Len(gtk_queue) < MaxGtkQueue
    /\ LET done == IF log_debug_print
                     THEN DebugPrint(register_arm9[6], mem_first, swapped_outcome)
                     ELSE [line |-> "none", scenario |-> -1, level |-> -1,
                           raised |-> FALSE]
       IN  /\ debug_print_call' =
                [called |-> TRUE, logging |-> log_debug_print,
                 current_op |-> register_arm9[6], line |-> done.line,
                 scenario |-> done.scenario, level |-> done.level,
                 raised |-> done.raised]
           /\ gtk_queue' = IF done.line # "none"
                             THEN threadsafe_gtk_nonblocking(gtk_queue, "print")
                             ELSE gtk_queue
    /\ UNCHANGED <<is_active, rom_data, ground_engine_state, breakpoint_manager,
                   breakpoints_disabled, breakpoints_disabled_for_tick,
                   breakpoint_force, flag_vars, debugger_state_lock, ges_vars,
                   temporary_breakpoints, hooks, current_frame_id, pending_tasks,
                   pc, srs, hit, state, ui_state,
                   toggle_vars, wait_iterations, container_vars, dungeon_vars,
                   opcode_call, printf_call, tile, register_arm9, debug_mode_call>>

\* The four hooks on a controller enabled without a breakpoint manager, the
\* debug-mode toggle, and the game writing r0.
DebugModeNext ==
    \/ \E rom \in Roms : Enable(rom, None)
    \/ Disable
    \/ \E value \in BOOLEAN : SetDebugMode(value)
    \/ HookDebugMode
    \/ \E mem_first \in BOOLEAN, swapped_outcome \in {"raises", "returns"} :
         HookLogDebugPrint(mem_first, swapped_outcome)
    \/ \E register_offset \in RegisterOffsets : HookLogPrintfs(register_offset, 0)
    \/ HookEnter
    \/ \E h \in Hits : HookCheck(h)
    \/ \E v \in R0Values : EmulatorWritesRegister(0, v)

DebugModeSpec == Init /\ [][DebugModeNext]_vars

\* The debug-print hook, its toggle, the game writing the opcode to r6 and the
\* UI thread taking the lines.
DebugPrintNext ==
    \/ \E rom \in Roms, manager \in Managers : Enable(rom, manager)
    \/ Disable
    \/ \E value \in BOOLEAN : SetLogDebugPrint(value)
    \/ \E mem_first \in BOOLEAN, swapped_outcome \in {"raises", "returns"} :
         HookLogDebugPrint(mem_first, swapped_outcome)
    \/ GtkDispatch
    \/ \E v \in DebugPrintOps : EmulatorWritesRegister(6, v)

DebugPrintSpec == Init /\ [][DebugPrintNext]_vars

\* ------------------------------------------------- the tile classifications
\* PixbufProviderTerrainType(map_field.terrain_type.value): the member of the
\* same value.
PixbufProviderTerrainType(value) == value

\* TerrainType with the monster house tested before the junction.
TerrainType_HouseFirst(map_field) ==
    IF map_field.is_impassable_wall THEN "IMPASSABLE_WALL"
    ELSE IF map_field.is_in_monster_house THEN "MONSTER_HOUSE"
    ELSE IF map_field.is_natural_junction THEN "JUNCTION"
    ELSE IF map_field.is_in_kecleon_shop THEN "KECLEON_SHOP"
    ELSE PixbufProviderTerrainType(map_field.terrain_type)

\* The terrain type of a tile.
TerrainType(map_field) ==
    IF map_field.is_impassable_wall THEN "IMPASSABLE_WALL"
    ELSE IF map_field.is_natural_junction THEN "JUNCTION"
    ELSE IF map_field.is_in_monster_house THEN "MONSTER_HOUSE"
    ELSE IF map_field.is_in_kecleon_shop THEN "KECLEON_SHOP"
    ELSE PixbufProviderTerrainType(map_field.terrain_type)

\* The floor type of a tile.
FloorType(map_field) ==
    IF map_field.entity_on_floor # "none"
      THEN IF map_field.entity_on_floor = "item" THEN "ITEM"
           ELSE IF map_field.entity_on_floor = "wonder_tile_trap" THEN "WONDER_TILE"
           ELSE "OTHER_TRAP"
      ELSE IF map_field.has_stairs THEN "STAIRS" ELSE "NONE"

\* MonsterType with the team leader tested before the ally flag.
MonsterType_LeaderFirst(monster_on_tile) ==
    IF ~monster_on_tile.present THEN "NONE"
    ELSE IF monster_on_tile.enemy_flag THEN "ENEMY"
    ELSE IF monster_on_tile.teamleader_flag THEN "TEAM_LEADER"
    ELSE IF monster_on_tile.ally_flag = 1 THEN "ALLY_ENEMY"
    ELSE "ALLY"

\* The monster type of a tile.
MonsterType(monster_on_tile) ==
    IF ~monster_on_tile.present THEN "NONE"
    ELSE IF monster_on_tile.enemy_flag THEN "ENEMY"
    ELSE IF monster_on_tile.ally_flag = 1 THEN "ALLY_ENEMY"
    ELSE IF monster_on_tile.teamleader_flag THEN "TEAM_LEADER"
    ELSE "ALLY"

\* The loop body of _update_maps up to the lookup of the small-map image, for
\* one field of the map.
ClassifyTile(map_field) ==
    /\ ~tile.rendered
    /\ tile' = [rendered |-> TRUE, map_field |-> map_field,
                terrain_type |-> TerrainType(map_field),
                floor_type |-> FloorType(map_field),
                monster_type |-> MonsterType(map_field.monster_on_tile)]
    /\ UNCHANGED <<debugger_vars, toggle_vars, wait_iterations, container_vars,
                   dungeon_vars, opcode_call, printf_call, hook_vars>>

\* The end of the loop body: the image of the three types is appended to the
\* small map and the loop goes on to the next field.
AppendTile ==
    /\ tile.rendered
    /\ tile' = NoTile
    /\ UNCHANGED <<debugger_vars, toggle_vars, wait_iterations, container_vars,
                   dungeon_vars, opcode_call, printf_call, hook_vars>>

ClassifyNext ==
    \/ \E map_field \in MapFields : ClassifyTile(map_field)
    \/ AppendTile

ClassifySpec == Init /\ [][ClassifyNext]_vars

\* --------------------------------------------------------------- fairness
\* The wait loop's timeout is 0.5 ms: an iteration that can run does run.
FairSpec == Init /\ [][Next]_vars /\ WF_vars(HookWait)

\* The emulator thread keeps running: each wait times out after 0.5 ms, a
\* queued task ends, and a loop whose condition is false is left.
ReturnFairSpec == Init /\ [][Next]_vars /\ WF_vars(HookWait) /\ WF_vars(HookResume)

\* ------------------------------------------------------------- properties
\* A step of the emulator thread that ends a hook invocation.
HookReturns == pc # "idle" /\ pc' = "idle"

\* The hook leaves the wait loop and applies the outcome st.
Answered(st) == pc = "waiting" /\ pc' = "idle" /\ state.state = st

\* The temporary breakpoint add_temporary registers for the struct in srs.
TemporaryFor(opcode_addr, is_in_unionall) ==
    [script_target_type |-> srs.script_target_type,
     script_target_slot_id |-> srs.script_target_slot_id,
     opcode_addr |-> opcode_addr, is_in_unionall |-> is_in_unionall]

\* C1: an invocation of the breaking-point hook without a breakpoint manager
\* emits the trace line iff operation logging is enabled, then returns: it
\* does not enter the wait loop, dispatches nothing more to the UI thread,
\* creates no Breakpoint State, leaves the force flag, the disabled-for-tick
\* marker and the temporary breakpoints as they were, and the lock is free.
C1_NoManagerNoBreak ==
    [][ /\ (pc = "idle" /\ pc' = "locked" /\ breakpoint_manager = None)
            => /\ gtk_queue' = IF log_operations
                                 THEN Append(gtk_queue, "print") ELSE gtk_queue
               /\ state' = NoState
               /\ UNCHANGED <<breakpoint_force, breakpoints_disabled_for_tick,
                              temporary_breakpoints>>
        /\ (pc = "locked" /\ pc' # "locked" /\ breakpoint_manager = None)
            => /\ pc' = "idle"
               /\ debugger_state_lock' = "free"
               /\ state' = NoState
               /\ UNCHANGED <<breakpoint_force, breakpoints_disabled_for_tick,
                              temporary_breakpoints, gtk_queue>> ]_vars

\* C1 witness: the hook runs without a manager and has traced the operation.
C1_Witness ==
    pc = "locked" /\ breakpoint_manager = None /\ gtk_queue = <<"print">>

\* C2: a hit that matches (script loaded, force flag set or has true) enters
\* the wait loop with a STOPPED state; while the state is STOPPED the
\* emulator thread stays in the loop and applies no step action; it leaves
\* the loop only with the state at one of the six outcomes.
C2_WaitsWhileStopped ==
    [][ /\ (pc = "unlocked" /\ pc' # "unlocked"
              /\ hit.ssb /\ (breakpoint_force \/ hit.has))
            => (pc' = "waiting" /\ state'.state = STOPPED)
        /\ (pc = "waiting" /\ state.state = STOPPED)
            => /\ pc' = "waiting"
               /\ UNCHANGED <<temporary_breakpoints, breakpoint_force,
                              breakpoints_disabled_for_tick>>
        /\ (pc = "waiting" /\ pc' # "waiting") => state.state \in Outcomes ]_vars

\* C2 witness: paused at a matching breakpoint, the UI holding the state and a
\* task pending for the loop to run.
C2_Witness ==
    pc = "waiting" /\ state.state = STOPPED /\ ui_state /\ pending_tasks > 0

\* C3: answered with RESUME, the hook returns with no temporary breakpoint
\* registered, the force flag false and the marker not at the current tick.
C3_ResumeRegistersNothing ==
    [][ Answered(RESUME)
          => /\ temporary_breakpoints' = <<>>
             /\ breakpoint_force' = FALSE
             /\ breakpoints_disabled_for_tick' # current_frame_id' ]_vars

\* C3 witness: a paused breakpoint answered with RESUME.
C3_Witness == pc = "waiting" /\ state.state = RESUME

\* C4: answered with STEP_INTO, the only temporary breakpoint present when the
\* hook returns is one for the current script target, with no opcode address
\* and no shared-code-region restriction.
C4_StepIntoRegistersOne ==
    [][ Answered(STEP_INTO)
          => temporary_breakpoints' = << TemporaryFor({}, {}) >> ]_vars

\* C4 witness: a paused breakpoint answered with STEP_INTO.
C4_Witness == pc = "waiting" /\ state.state = STEP_INTO

\* C5: answered with STEP_OVER, with a call stack exactly two temporary
\* breakpoints are registered for the current target, one restricted to the
\* hit's shared-code-region flag and one at the call stack's opcode address;
\* without a call stack only the first.
C5_StepOverRegisters ==
    [][ Answered(STEP_OVER)
          => temporary_breakpoints' =
               IF srs.has_call_stack
                 THEN << TemporaryFor({}, {srs.is_in_unionall}),
                         TemporaryFor({srs.call_stack__current_opcode_addr_relative},
                                      {}) >>
                 ELSE << TemporaryFor({}, {srs.is_in_unionall}) >> ]_vars

\* C5 witness: STEP_OVER answered on a hit with a call stack.
C5_Witness ==
    pc = "waiting" /\ state.state = STEP_OVER /\ srs.has_call_stack

\* C6: answered with STEP_OUT, with a call stack exactly one temporary
\* breakpoint is registered, for the current target at the call stack's opcode
\* address; without a call stack the hook leaves the controller and the
\* breakpoint manager as RESUME does.
C6_StepOutRegisters ==
    [][ Answered(STEP_OUT)
          => IF srs.has_call_stack
               THEN /\ temporary_breakpoints' =
                         << TemporaryFor(
                              {srs.call_stack__current_opcode_addr_relative}, {}) >>
                    /\ UNCHANGED <<breakpoint_force, breakpoints_disabled_for_tick>>
               ELSE /\ temporary_breakpoints' =
                         TemporaryAfter(RESUME, temporary_breakpoints, srs)
                    /\ breakpoint_force' = ForceAfter(RESUME, breakpoint_force)
                    /\ breakpoints_disabled_for_tick' =
                         DisabledForTickAfter(RESUME, breakpoints_disabled_for_tick,
                                              current_frame_id)
                    /\ temporary_breakpoints' = <<>> ]_vars

\* C6 witness: STEP_OUT answered on a hit without a call stack.
C6_Witness ==
    pc = "waiting" /\ state.state = STEP_OUT /\ ~srs.has_call_stack

FixedHooks ==
    [a \in HookAddrs |->
       CASE a = BreakingPointAddr -> "hook__breaking_point"
         [] a = DebugPrintAddr -> "hook__log_printfs(1)"
         [] a = DebugPrint2Addr -> "hook__log_printfs(0)"
         [] a = LogDebugPrintAddr -> "hook__log_debug_print"
         [] a = DebugModeAddr -> "hook__debug_mode"]

\* The addresses with a callback registered.
Registered == {a \in HookAddrs : hooks[a] # None}

C10_DisableClearsEnableRebuilds ==
    /\ [](rom_data = None =>
            (Registered = {} /\ ground_engine_state = 0))
    /\ [][ /\ (rom_data # None /\ rom_data' = None)
               => /\ Registered' = {}
                  /\ ground_engine_state \notin ges_watching'
                  /\ ground_engine_state' = 0
           /\ (ground_engine_state = 0 /\ ground_engine_state' # 0)
               => /\ ground_engine_state' \notin 0..ges_constructed
                  /\ ground_engine_state' \in ges_watching'
                  /\ rom_data' # None
                  /\ hooks' = FixedHooks ]_vars

\* C10 witness: enabled again after a disable(): the second Ground Engine State
\* is the only one watched.
C10_Witness ==
    ground_engine_state = 2 /\ ges_watching = {2} /\ rom_data # None

\* C11: the emulator thread holds the lock only between the hook's entry and
\* the end of its tests: the lock is free in the wait loop, it is free before
\* and after the step that creates the Breakpoint State, each of the five
\* logging-toggle setters can run to completion while the hook waits, and the
\* lock is free when the hook returns.
C11_LockFreeWhilePaused ==
    /\ [](pc # "locked" => debugger_state_lock = "free")
    /\ [](pc = "waiting" =>
            /\ ENABLED SetLogOperations(~log_operations)
            /\ ENABLED SetLogDebugPrint(~log_debug_print)
            /\ ENABLED SetLogPrintfs(~log_printfs)
            /\ ENABLED SetLogGroundEngineState(~log_ground_engine_state)
            /\ ENABLED SetDebugMode(~debug_mode))
    /\ [][ /\ (state = NoState /\ state' # NoState)
               => (debugger_state_lock = "free" /\ debugger_state_lock' = "free")
           /\ HookReturns => debugger_state_lock' = "free" ]_vars

\* C11 witness: all five toggles were set while the hook waits at a break
\* that is still STOPPED.
C11_Witness ==
    /\ pc = "waiting" /\ state.state = STOPPED
    /\ log_operations /\ log_debug_print /\ log_printfs
    /\ log_ground_engine_state /\ debug_mode
    /\ debugger_state_lock = "free"

\* The emulator thread is in the wait loop and the loop's condition holds.
Paused == pc = "waiting" /\ ~state.signalled /\ state.state = STOPPED

\* C12: during a pause the queue of the emulator thread only shrinks by a loop
\* iteration, which runs exactly one task and only while the state is STOPPED
\* and unsignalled; and while tasks are queued and the pause lasts, a further
\* iteration runs a task.
C12_TasksRunWhilePaused ==
    /\ [][ (pc = "waiting" /\ pending_tasks' < pending_tasks)
             => (Paused /\ pending_tasks' = pending_tasks - 1) ]_vars
    /\ \A b \in {0, 1} :
         (Paused /\ pending_tasks > 0 /\ wait_iterations = b)
           ~> (~Paused \/ wait_iterations # b)

\* C12 witness: an iteration of this pause has run a task, and another task
\* is queued.
C12_Witness ==
    Paused /\ wait_iterations = 1 /\ pending_tasks = 1

\* The threads inside the body of a get() or set().
InBody == {t \in Threads : calls[t].at \in {"body", "release"}}

\* C13: at most one thread is inside a get/set body, and it is the holder of
\* the shared lock; a get() returns the value of the last set() on its
\* container that returned, or the constructor's value if there was none,
\* and so only the constructor's value or a value passed to a set() on it.
C13_ContainerSerialized ==
    /\ [](Cardinality(InBody) <= 1)
    /\ [](\A t \in Threads : t \in InBody <=> container_lock = t)
    /\ [][ \A t \in Threads :
             (calls[t].op = "get" /\ calls[t].at = "body" /\ calls'[t].at = "release")
               => /\ calls'[t].result = last_set[calls[t].container]
                  /\ calls'[t].result
                       \in {InitialAddress} \cup values_set[calls[t].container] ]_vars

\* C13 witness: a get() has read a value another call had set, while the
\* other thread waits for the lock with a set() on the same container.
C13_Witness ==
    \E t, u \in Threads :
        /\ calls[t].op = "get" /\ calls[t].at = "release"
        /\ calls[t].result \in Addresses
        /\ calls[u].op = "set" /\ calls[u].at = "acquire"
        /\ calls[u].container = calls[t].container
        /\ calls[u].value # calls[t].result

\* A step that changes the Dungeon State Controller without enabling or
\* disabling it and without a change of emulator memory: a refresh tick.
Ticked ==
    /\ timers > 0
    /\ UNCHANGED <<dungeon_is_loaded, dungeon_rom_data, dungeon_state,
                   dungeon_assets, dungeon_valid>>

\* C14: a refresh tick run while is_loaded is false leaves both lists empty,
\* reads neither the Dungeon State's valid flag nor its map, asks for no map
\* provider and adds exactly one timer for the one that fired; also when the
\* controller was enabled before and then disabled.
C14_UnloadedTickOnlyClears ==
    [][ (Ticked /\ ~dungeon_is_loaded)
          => /\ small_map_model' = <<>> /\ full_map_model' = <<>>
             /\ ~tick'.read_valid /\ ~tick'.load_map /\ ~tick'.provider
             /\ tick'.rearmed = 1 /\ timers' = timers
             /\ UNCHANGED <<current_cached_tilemap_id,
                            current_cached_full_map_provider>> ]_dungeon_vars

\* C14 witness: enabled, rendered, then disabled, and a tick has since cleared
\* the lists.
C14_Witness ==
    /\ ~dungeon_is_loaded /\ dungeon_state # None
    /\ current_cached_full_map_provider
    /\ small_map_model = <<>> /\ tick.rearmed = 1 /\ ~tick.read_valid

\* C15: _get_next_opcode_addr returns rel + 2 + 2 * params for an opcode with
\* params >= 0 and rel + 2 + 2 + L for one with params = -1, L being the short
\* read after the opcode id (106 for params 2 at 100, 210 for L = 6 at 200);
\* the result is at least rel + 2.
C15_NextOpcodeAddr ==
    opcode_call.called =>
      /\ opcode_call.params >= 0
           => opcode_call.result = opcode_call.rel + 2 + 2 * opcode_call.params
      /\ opcode_call.params = -1
           => opcode_call.result = opcode_call.rel + 2 + 2 + opcode_call.length_field
      /\ (opcode_call.params = 2 /\ opcode_call.rel = 100) => opcode_call.result = 106
      /\ (opcode_call.params = -1 /\ opcode_call.rel = 200
            /\ opcode_call.length_field = 6) => opcode_call.result = 210
      /\ opcode_call.result >= opcode_call.rel + 2

\* C15 witness: the call for a variable-arity opcode at 200 with length 6.
C15_Witness ==
    /\ opcode_call.called
    /\ opcode_call.params = -1 /\ opcode_call.rel = 200
    /\ opcode_call.length_field = 6 /\ opcode_call.result = 210

\* The i-th argument of the last printf line was read from register r.
ArgFrom(i, r) == printf_call.registers[i] = r

\* What holds of the printf hook for every arity but 8: nothing is emitted
\* with printf logging disabled; a line has as many arguments as the arity;
\* for arities 1..6 and 9 the i-th is read from register_offset + i; for arity
\* 7 the first six are, and the seventh is read from r8.
PrintfRegular ==
    /\ (printf_call.called /\ ~printf_call.emitted) => printf_call.registers = <<>>
    /\ printf_call.emitted =>
         /\ Len(printf_call.registers) = printf_call.args_count
         /\ printf_call.args_count \in (1..6) \cup {9}
              => \A i \in 1..printf_call.args_count :
                    ArgFrom(i, printf_call.register_offset + i)
         /\ printf_call.args_count \in {7, 8}
              => \A i \in 1..6 : ArgFrom(i, printf_call.register_offset + i)
         /\ printf_call.args_count = 7 => ArgFrom(7, 8)

\* A line is emitted only with printf logging enabled.
PrintfOnlyEnabled ==
    [][ (printf_call' # printf_call /\ ~log_printfs) => ~printf_call'.emitted ]_vars

\* C16 as claimed: for arity 8 the seventh and eighth arguments are read from
\* r7 and r8, with either register offset.
C16_Original ==
    /\ PrintfRegular
    /\ (printf_call.emitted /\ printf_call.args_count = 8)
         => (ArgFrom(7, 7) /\ ArgFrom(8, 8))

\* C16, amended: for arity 8, as for 1..6 and 9, every argument is read from
\* register_offset + i: the seventh and eighth from r7 and r8 with offset 0
\* (DebugPrint2) and from r8 and r9 with offset 1 (DebugPrint); arity 7 reads
\* its seventh from r8; nothing is emitted with printf logging disabled.
C16_PrintfRegisters ==
    /\ []PrintfRegular
    /\ []((printf_call.emitted /\ printf_call.args_count = 8)
            => /\ ArgFrom(7, printf_call.register_offset + 7)
               /\ ArgFrom(8, printf_call.register_offset + 8))
    /\ PrintfOnlyEnabled

\* C16 witness: a line of arity 8 emitted by the hook bound with offset 1.
C16_Witness ==
    /\ printf_call.emitted /\ printf_call.args_count = 8
    /\ printf_call.register_offset = 1

\* C17: the terrain type of a rendered tile is IMPASSABLE_WALL if the field is
\* an impassable wall, else JUNCTION if it is a natural junction, else
\* MONSTER_HOUSE if it is in a monster house, else KECLEON_SHOP if it is in a
\* Kecleon shop, else the field's base terrain type.
C17_TerrainPriority ==
    tile.rendered =>
      LET f == tile.map_field IN
      /\ f.is_impassable_wall => tile.terrain_type = "IMPASSABLE_WALL"
      /\ (~f.is_impassable_wall /\ f.is_natural_junction)
           => tile.terrain_type = "JUNCTION"
      /\ (~f.is_impassable_wall /\ ~f.is_natural_junction /\ f.is_in_monster_house)
           => tile.terrain_type = "MONSTER_HOUSE"
      /\ (~f.is_impassable_wall /\ ~f.is_natural_junction /\ ~f.is_in_monster_house
            /\ f.is_in_kecleon_shop)
           => tile.terrain_type = "KECLEON_SHOP"
      /\ (~f.is_impassable_wall /\ ~f.is_natural_junction /\ ~f.is_in_monster_house
            /\ ~f.is_in_kecleon_shop)
           => tile.terrain_type = f.terrain_type

\* C17 witness: a tile in a monster house that is a natural junction, rendered
\* as a junction.
C17_Witness ==
    /\ tile.rendered
    /\ tile.map_field.is_in_monster_house /\ tile.map_field.is_natural_junction
    /\ ~tile.map_field.is_impassable_wall
    /\ tile.terrain_type = "JUNCTION"

\* C18: the monster type of a rendered tile is NONE without a monster on it,
\* else ENEMY if the enemy flag is set, else ALLY_ENEMY if the ally flag is 1,
\* else TEAM_LEADER if the team-leader flag is set, else ALLY.
C18_MonsterPriority ==
    tile.rendered =>
      LET m == tile.map_field.monster_on_tile IN
      /\ ~m.present => tile.monster_type = "NONE"
      /\ (m.present /\ m.enemy_flag) => tile.monster_type = "ENEMY"
      /\ (m.present /\ ~m.enemy_flag /\ m.ally_flag = 1)
           => tile.monster_type = "ALLY_ENEMY"
      /\ (m.present /\ ~m.enemy_flag /\ m.ally_flag # 1 /\ m.teamleader_flag)
           => tile.monster_type = "TEAM_LEADER"
      /\ (m.present /\ ~m.enemy_flag /\ m.ally_flag # 1 /\ ~m.teamleader_flag)
           => tile.monster_type = "ALLY"

\* C18 witness: a team leader whose ally flag is 1, rendered as an ally-enemy.
C18_Witness ==
    /\ tile.rendered
    /\ tile.map_field.monster_on_tile.present
    /\ ~tile.map_field.monster_on_tile.enemy_flag
    /\ tile.map_field.monster_on_tile.ally_flag = 1
    /\ tile.map_field.monster_on_tile.teamleader_flag
    /\ tile.monster_type = "ALLY_ENEMY"

\* C19: every refresh tick re-arms the timer exactly once, whether it
\* rendered, was skipped or failed; so after construction and any sequence of
\* enable (an enable that raised part-way included), disable and ticks,
\* exactly one refresh timer is pending and no exception has escaped a tick.
C19_TimerRearmedEveryTick ==
    /\ timers = 1
    /\ ~tick.escaped
    /\ tick # NoTick => tick.rearmed = 1

\* A logging toggle is written.
ToggleWritten ==
    \/ log_operations' # log_operations
    \/ log_debug_print' # log_debug_print
    \/ log_printfs' # log_printfs
    \/ log_ground_engine_state' # log_ground_engine_state
    \/ debug_mode' # debug_mode

\* The UI thread writes breakpoints_disabled, rom_data or ground_engine_state.
ReferenceWritten ==
    \/ breakpoints_disabled' # breakpoints_disabled
    \/ rom_data' # rom_data
    \/ ground_engine_state' # ground_engine_state

\* The hook's bookkeeping writes the disabled-for-tick marker or the force
\* flag.
BookkeepingWritten ==
    \/ breakpoints_disabled_for_tick' # breakpoints_disabled_for_tick
    \/ breakpoint_force' # breakpoint_force

C21_DisabledReturns ==
    [][ (/\ pc = "locked" /\ pc' # "locked"
         /\ breakpoint_manager # None
         /\ (breakpoints_disabled
               \/ breakpoints_disabled_for_tick = current_frame_id))
          => /\ pc' = "idle"
             /\ debugger_state_lock' = "free"
             /\ hit' = NoHit
             /\ state' = NoState
             /\ UNCHANGED <<temporary_breakpoints, breakpoint_force,
                            breakpoints_disabled_for_tick, gtk_queue>> ]_vars

\* C21 witness: the hook is at its tests with a manager attached, the marker
\* equal to the current tick id after a FAIL_HARD in a later tick than the
\* first, and breakpoints not globally disabled.
C21_Witness ==
    /\ pc = "locked"
    /\ breakpoint_manager # None
    /\ ~breakpoints_disabled
    /\ breakpoints_disabled_for_tick = current_frame_id
    /\ current_frame_id > 0

\* C22: a hit whose hanger slot holds no loaded script file is not a match,
\* also with the force flag set: the hook returns without a break, dispatches
\* nothing to the UI thread, creates no Breakpoint State, keeps the temporary
\* breakpoints, leaves the force flag as it was, and the lock is free.
C22_NoScriptNoBreak ==
    [][ (pc = "unlocked" /\ pc' # "unlocked" /\ ~hit.ssb)
          => /\ pc' = "idle"
             /\ state' = NoState
             /\ debugger_state_lock' = "free"
             /\ UNCHANGED <<temporary_breakpoints, breakpoint_force, gtk_queue>>
      ]_vars

\* C22 witness: the hook evaluates a hit without a loaded script file while
\* the force flag is set.
C22_Witness ==
    pc = "unlocked" /\ ~hit.ssb /\ breakpoint_force

\* The break_pulled notifications in flight to the UI thread.
BreakPulled(queue) ==
    Cardinality({i \in DOMAIN queue : queue[i] = "break_pulled"})

\* C23: the step of the hook that breaks clears the temporary breakpoints and
\* the force flag, creates a STOPPED Breakpoint State keyed by the hit's
\* hanger slot and dispatches exactly one break_pulled; no other step
\* dispatches one.  So at most one notification is in flight, and while it is,
\* the hook waits on a STOPPED state with the temporaries and the force flag
\* already cleared.
C23_BreakOrder ==
    /\ [][ /\ (state = NoState /\ state' # NoState)
               => /\ pc = "unlocked" /\ pc' = "waiting"
                  /\ temporary_breakpoints' = <<>>
                  /\ breakpoint_force' = FALSE
                  /\ state' = [hanger_id |-> srs'.hanger_ssb, state |-> STOPPED,
                               signalled |-> FALSE]
                  /\ gtk_queue' = Append(gtk_queue, "break_pulled")
           /\ BreakPulled(gtk_queue') > BreakPulled(gtk_queue)
               => (state = NoState /\ state' # NoState) ]_vars
    /\ [](BreakPulled(gtk_queue) <= 1)
    /\ [](BreakPulled(gtk_queue) = 1
            => /\ pc = "waiting" /\ state.state = STOPPED
               /\ temporary_breakpoints = <<>>
               /\ ~breakpoint_force)

\* C23 witness: a break on hanger slot 1 whose notification is queued behind
\* the trace line of the same invocation.
C23_Witness ==
    /\ gtk_queue = <<"print", "break_pulled">>
    /\ state.hanger_id = 1
    /\ state.state = STOPPED

\* C24: once the Breakpoint State of a paused hook holds one of the six
\* outcomes, the hook leaves the wait loop and returns, whether or not the
\* state's signal was raised.
C24_OutcomeEndsPause ==
    \A notified \in BOOLEAN :
      (pc = "waiting" /\ state.state \in Outcomes /\ state.signalled = notified)
        ~> (pc = "idle" /\ state = NoState)

\* C24 witness: the paused state was set to FAIL_HARD without its signal being
\* raised, with tasks still queued for the loop.
C24_Witness ==
    /\ pc = "waiting"
    /\ state.state = FAIL_HARD /\ ~state.signalled
    /\ pending_tasks = MaxPending

\* The five logging toggles.
Toggles ==
    <<log_operations, log_debug_print, log_printfs, log_ground_engine_state,
      debug_mode>>

\* C25: whenever the controller has a Ground Engine State, its
\* logging_enabled equals the controller's log_ground_engine_state flag; and
\* no step writes more than one of the five logging toggles.
C25_GesLoggingFollowsFlag ==
    /\ [](ground_engine_state # 0 => ges_logging_enabled = log_ground_engine_state)
    /\ [][ Cardinality({i \in 1..5 : Toggles'[i] # Toggles[i]}) <= 1 ]_vars

\* C25 witness: the second Ground Engine State of the behaviour logs, the
\* flag is set, and of the other toggles debug_mode is set and log_operations
\* is not.
C25_Witness ==
    /\ ground_engine_state = 2
    /\ ges_logging_enabled /\ log_ground_engine_state
    /\ debug_mode /\ ~log_operations

DebugModeHookRuns ==
    debug_mode_call' # debug_mode_call /\ debug_mode_call'.calls > 0

\* C27: an invocation of hook__debug_mode with debug mode on leaves r0 at 1 if
\* it was 0 and at 0 otherwise, and with debug mode off leaves r0 as it was;
\* it writes no other register.  After two invocations in a row with debug
\* mode on, an r0 that was 0 or 1 has its value back.  The registers change
\* only by the game or by hook__debug_mode: no step of the breaking-point
\* hook, the printf hook or the debug-print hook writes one.
C27_DebugModeFlipsR0 ==
    /\ [][ /\ DebugModeHookRuns
               => /\ debug_mode
                       => register_arm9'[0] = IF register_arm9[0] = 0 THEN 1 ELSE 0
                  /\ ~debug_mode => register_arm9'[0] = register_arm9[0]
                  /\ \A r \in Registers \ {0} : register_arm9'[r] = register_arm9[r]
           /\ register_arm9' # register_arm9
               => (debug_mode_call'.calls = 0 \/ (DebugModeHookRuns /\ debug_mode))
           /\ (pc' # pc \/ printf_call' # printf_call
                 \/ debug_print_call' # debug_print_call)
               => register_arm9' = register_arm9 ]_vars
    /\ []((debug_mode_call.calls = 2 /\ debug_mode_call.enabled
              /\ debug_mode_call.first_r0 \in {0, 1})
            => register_arm9[0] = debug_mode_call.first_r0)

\* C27 witness: two invocations in a row with debug mode on, from r0 = 1,
\* after the printf hook and the debug-print hook ran.
C27_Witness ==
    /\ debug_mode_call = [calls |-> 2, first_r0 |-> 1, enabled |-> TRUE]
    /\ register_arm9[0] = 1
    /\ printf_call.called /\ debug_print_call.called

\* C28: an invocation of hook__log_debug_print emits nothing with debug-print
\* logging disabled; with it enabled it emits exactly one line when r6 holds
\* 0x6B, 0x6C or 0x6D, prefixed debug_Print, debug_PrintFlag and
\* debug_PrintScenario, and nothing for another opcode; for 0x6D the scenario
\* field and the level field of the line both carry the sub-index-0 value.
C28_DebugPrintLines ==
    /\ [](debug_print_call.called =>
            /\ ~debug_print_call.logging => debug_print_call.line = "none"
            /\ debug_print_call.logging =>
                 debug_print_call.line =
                   CASE debug_print_call.current_op = 107 -> "debug_Print"
                     [] debug_print_call.current_op = 108 -> "debug_PrintFlag"
                     [] debug_print_call.current_op = 109 -> "debug_PrintScenario"
                     [] OTHER -> "none"
            /\ (debug_print_call.logging /\ debug_print_call.current_op = 109)
                 => (debug_print_call.scenario = 0 /\ debug_print_call.level = 0))
    /\ [][ debug_print_call' # debug_print_call
             => gtk_queue' = IF debug_print_call'.line = "none"
                               THEN gtk_queue
                               ELSE Append(gtk_queue, "print") ]_vars

\* Entry a of a map list is for a tile the loop visits before the tile of
\* entry b: an earlier row, or the same row and an earlier column.
VisitedBefore(a, b) == a[2] < b[2] \/ (a[2] = b[2] /\ a[1] < b[1])

\* C29: at the end of every tick the full-map list holds the images of the
\* same tiles as the start of the small-map list, which is at most one entry
\* longer; both lists are in row-major order (y outer, x inner); and after a
\* tick that rendered without an exception both hold MAP_WIDTH * MAP_HEIGHT
\* entries.
C29_MapListsInStep ==
    /\ Len(small_map_model) - Len(full_map_model) \in {0, 1}
    /\ full_map_model = SubSeq(small_map_model, 1, Len(full_map_model))
    /\ \A i, j \in 1..Len(small_map_model) :
         i < j => VisitedBefore(small_map_model[i], small_map_model[j])
    /\ \A i \in 1..Len(small_map_model) :
         /\ small_map_model[i][1] \in 0..(MAP_WIDTH - 1)
         /\ small_map_model[i][2] \in 0..(MAP_HEIGHT - 1)
    /\ (Len(small_map_model) > 0 /\ Len(small_map_model) < MAP_WIDTH * MAP_HEIGHT)
         => VisitedBefore(small_map_model[Len(small_map_model)],
                          <<MAP_WIDTH - 1, MAP_HEIGHT - 1>>)
    /\ (tick.load_map /\ ~tick.caught)
         => /\ Len(small_map_model) = MAP_WIDTH * MAP_HEIGHT
            /\ Len(full_map_model) = MAP_WIDTH * MAP_HEIGHT

\* C29 witness: a tick aborted by the full-map lookup of the first tile of the
\* second row, after its small-map image was appended.
C29_Witness ==
    /\ tick.caught
    /\ Len(small_map_model) = MAP_WIDTH + 1
    /\ Len(full_map_model) = MAP_WIDTH
    /\ small_map_model[MAP_WIDTH + 1] = <<0, 1>>
====
